---------------------------- MODULE Spec2Model ----------------------------
(***************************************************************************)
(* Model of components/chat-interface.tsx: the ChatInterface component     *)
(* (message list, input box, recording flag, selected language, the        *)
(* one-second response timer, the browser's speech synthesis queue and     *)
(* speech recognition sessions) and the two pure functions sanitizeInput   *)
(* and getMockResponse.                                                    *)
(*                                                                         *)
(* A JavaScript string is a sequence of one-character strings.  Devanagari *)
(* code points are written by their code point name ("U092A" is U+092A).   *)
(***************************************************************************)
EXTENDS Integers, Sequences, FiniteSets, TLC

VARIABLES
    messages,      \* useState<Message[]>: sequence of message records
    input,         \* useState(''): the text of the input box
    isRecording,   \* useState(false)
    selectedLang,  \* useState(LANGUAGES[0]): the selected language code
    timers,        \* pending setTimeout callbacks of handleSend, in firing order
    synthQueue,    \* window.speechSynthesis: utterances pending or being spoken
    sessions,      \* SpeechRecognition instances created so far: id -> "listening",
                   \* "aborted" (onerror due), "stopped" (onend due) or "ended"
    hasSynthesis,  \* 'speechSynthesis' in window
    hasRecognition,\* 'webkitSpeechRecognition' in window || 'SpeechRecognition' in window
    alerted,       \* alert(...) has been shown
    lastError,     \* the exception the last handler let escape, or "none"
    lastOp,        \* history: the handler or callback that ran last
    fnPc,          \* function run: position
    fnText,        \* function run: the text argument
    fnLang,        \* function run: the language argument
    fnOut,         \* function run: the result
    fnOut2         \* function run: the result of the second application

uiVars == <<messages, input, isRecording, selectedLang, timers, synthQueue,
            sessions, hasSynthesis, hasRecognition, alerted, lastError, lastOp>>
fnVars == <<fnPc, fnText, fnLang, fnOut, fnOut2>>
vars == <<messages, input, isRecording, selectedLang, timers, synthQueue,
          sessions, hasSynthesis, hasRecognition, alerted, lastError, lastOp,
          fnPc, fnText, fnLang, fnOut, fnOut2>>

-----------------------------------------------------------------------------
(* Bounds of the model. *)

MaxChunks == 4      \* an input of sanitizeInput is at most this many chunks
MaxQueryChunks == 3 \* a query of getMockResponse is at most this many chunks
MaxMessages == 2    \* messages in the list, counting the responses still due
MaxSessions == 2    \* SpeechRecognition instances created in one run

-----------------------------------------------------------------------------
(* Characters and the character classes of the two regular expressions. *)

LowerSeq == <<"a","b","c","d","e","f","g","h","i","j","k","l","m",
              "n","o","p","q","r","s","t","u","v","w","x","y","z">>
UpperSeq == <<"A","B","C","D","E","F","G","H","I","J","K","L","M",
              "N","O","P","Q","R","S","T","U","V","W","X","Y","Z">>
Lower == {LowerSeq[k] : k \in 1..Len(LowerSeq)}
Upper == {UpperSeq[k] : k \in 1..Len(UpperSeq)}
Digit == {"0","1","2","3","4","5","6","7","8","9"}
Alpha == Lower \cup Upper

\* [a-zA-Z0-9._%+-]
EmailLocalClass == Alpha \cup Digit \cup {".", "_", "%", "+", "-"}
\* [a-zA-Z0-9.-]
EmailDomainClass == Alpha \cup Digit \cup {".", "-"}
\* \w of a JavaScript regular expression without the u flag: [A-Za-z0-9_]
WordClass == Alpha \cup Digit \cup {"_"}

\* {2,} of [a-zA-Z]{2,}
TldMin == 2
\* {10} of \d{10}
PhoneDigits == 10

EMAIL_REDACTED == <<"[","E","M","A","I","L"," ","R","E","D","A","C","T","E","D","]">>
PHONE_REDACTED == <<"[","P","H","O","N","E"," ","R","E","D","A","C","T","E","D","]">>

Max(S) == CHOOSE x \in S : \A y \in S : y <= x

\* The last index of the longest run of characters of class C that starts at i
\* (i - 1 when s[i] is not in C or i is past the end): a greedy C*.
RECURSIVE RunEnd(_, _, _)
RunEnd(s, i, C) ==
    IF i <= Len(s) /\ s[i] \in C THEN RunEnd(s, i + 1, C) ELSE i - 1

\* The end of [a-zA-Z]{2,} matched greedily at i, or 0.
TldEnd(s, i) ==
    LET e == RunEnd(s, i, Alpha)
    IN  IF e - i + 1 >= TldMin THEN e ELSE 0

\* The ends d of the domain part [a-zA-Z0-9.-]+ starting at i after which
\* \.[a-zA-Z]{2,} matches.
DomainEnds(s, i) ==
    {d \in i..RunEnd(s, i, EmailDomainClass) :
        d + 1 <= Len(s) /\ s[d + 1] = "." /\ TldEnd(s, d + 2) > 0}

\* The ends l of the local part [a-zA-Z0-9._%+-]+ starting at i after which
\* @[a-zA-Z0-9.-]+\.[a-zA-Z]{2,} matches.
LocalEnds(s, i) ==
    {l \in i..RunEnd(s, i, EmailLocalClass) :
        l + 1 <= Len(s) /\ s[l + 1] = "@" /\ DomainEnds(s, l + 2) # {}}

\* /[a-zA-Z0-9._%+-]+@[a-zA-Z0-9.-]+\.[a-zA-Z]{2,}/ tried at position i: the
\* index of the last character of the match, or 0 when there is none.  Each
\* quantifier is greedy and backtracks from its longest run, so the match is
\* the one with the longest local part, then the longest domain part.
EmailMatchEnd(s, i) ==
    IF LocalEnds(s, i) = {} THEN 0
    ELSE LET l == Max(LocalEnds(s, i))
             d == Max(DomainEnds(s, l + 2))
         IN  TldEnd(s, d + 2)

IsWordAt(s, i) == i >= 1 /\ i <= Len(s) /\ s[i] \in WordClass

\* \b between s[i - 1] and s[i]
WordBoundary(s, i) == IsWordAt(s, i - 1) # IsWordAt(s, i)

\* The phone pattern without its two \b.
PhoneMatchEndNoBoundary(s, i) ==
    IF /\ i + PhoneDigits - 1 <= Len(s)
       /\ \A k \in i..(i + PhoneDigits - 1) : s[k] \in Digit
    THEN i + PhoneDigits - 1
    ELSE 0

\* /\b\d{10}\b/ tried at position i: the index of the last character of the
\* match, or 0 when there is none.
PhoneMatchEnd(s, i) ==
    IF /\ i + PhoneDigits - 1 <= Len(s)
       /\ WordBoundary(s, i)
       /\ \A k \in i..(i + PhoneDigits - 1) : s[k] \in Digit
       /\ WordBoundary(s, i + PhoneDigits)
    THEN i + PhoneDigits - 1
    ELSE 0

\* text.replace(/.../g, '[EMAIL REDACTED]') from position i on: the scan goes
\* left to right, a match is replaced by the token and the scan resumes after
\* it, a character at which nothing matches is copied.
RECURSIVE ReplaceEmailFrom(_, _)
ReplaceEmailFrom(s, i) ==
    IF i > Len(s) THEN <<>>
    ELSE IF EmailMatchEnd(s, i) > 0
         THEN EMAIL_REDACTED \o ReplaceEmailFrom(s, EmailMatchEnd(s, i) + 1)
         ELSE <<s[i]>> \o ReplaceEmailFrom(s, i + 1)

\* A replace without the g flag: only the first match is replaced.
RECURSIVE ReplaceFirstEmailFrom(_, _)
ReplaceFirstEmailFrom(s, i) ==
    IF i > Len(s) THEN <<>>
    ELSE IF EmailMatchEnd(s, i) > 0
         THEN EMAIL_REDACTED \o SubSeq(s, EmailMatchEnd(s, i) + 1, Len(s))
         ELSE <<s[i]>> \o ReplaceFirstEmailFrom(s, i + 1)

ReplaceFirstEmail(s) == ReplaceFirstEmailFrom(s, 1)

ReplaceEmail(s) == ReplaceEmailFrom(s, 1)

\* cleaned.replace(/\b\d{10}\b/g, '[PHONE REDACTED]') from position i on.
RECURSIVE ReplacePhoneFrom(_, _)
ReplacePhoneFrom(s, i) ==
    IF i > Len(s) THEN <<>>
    ELSE IF PhoneMatchEnd(s, i) > 0
         THEN PHONE_REDACTED \o ReplacePhoneFrom(s, PhoneMatchEnd(s, i) + 1)
         ELSE <<s[i]>> \o ReplacePhoneFrom(s, i + 1)

ReplacePhone(s) == ReplacePhoneFrom(s, 1)

\* The spans <<first, last>> the global email replace replaces, from position i on.
RECURSIVE EmailSpansFrom(_, _)
EmailSpansFrom(s, i) ==
    IF i > Len(s) THEN {}
    ELSE IF EmailMatchEnd(s, i) > 0
         THEN {<<i, EmailMatchEnd(s, i)>>} \cup EmailSpansFrom(s, EmailMatchEnd(s, i) + 1)
         ELSE EmailSpansFrom(s, i + 1)

EmailSpans(s) == EmailSpansFrom(s, 1)

\* The two substitutions in the other order.
sanitizePhoneFirst(text) == ReplaceEmail(ReplacePhone(text))

sanitizeInput(text) == ReplacePhone(ReplaceEmail(text))

-----------------------------------------------------------------------------
(* Inputs of the function run: concatenations of chunks. *)

Digits9 == <<"1","2","3","4","5","6","7","8","9">>
Digits10 == <<"9","8","7","6","5","4","3","2","1","0">>
AnEmail == <<"a","@","b",".","c","o">>
AtDomain == <<"@","b",".","c","o">>

SanChunks ==
    {AnEmail, AtDomain, Digits10, Digits9, <<"1">>, <<" ">>, <<"x">>, <<"'">>, <<".">>}

RECURSIVE Flatten(_)
Flatten(cs) == IF cs = <<>> THEN <<>> ELSE Head(cs) \o Flatten(Tail(cs))

ChunkSeqs(C, max) == UNION {[1..n -> C] : n \in 0..max}

SanInputs == {Flatten(cs) : cs \in ChunkSeqs(SanChunks, MaxChunks)}


-----------------------------------------------------------------------------
(* getMockResponse. *)

Undefined == "undefined"

\* LANGUAGES[k].code
LanguageCodes == {"en-US", "hi-IN", "mr-IN"}

\* const responses = {...}: the response strings are named by language and topic.
responses ==
    [l \in LanguageCodes |->
        [default |-> l \o ".default", password |-> l \o ".password", privacy |-> l \o ".privacy"]]

\* Names every JavaScript object inherits from Object.prototype: responses[name]
\* is then a function or an object, which is truthy and has none of the
\* properties default, password and privacy.
ObjectPrototypeKeys ==
    {"constructor", "toString", "toLocaleString", "valueOf", "hasOwnProperty",
     "isPrototypeOf", "propertyIsEnumerable", "__proto__"}

InheritedMember == [default |-> Undefined, password |-> Undefined, privacy |-> Undefined]

\* responses[langKey] || responses['en-US']
langResponses(lang) ==
    IF lang \in DOMAIN responses THEN responses[lang]
    ELSE IF lang \in ObjectPrototypeKeys THEN InheritedMember
    ELSE responses["en-US"]

\* String.prototype.toLowerCase on one character: A-Z map to a-z, the
\* Devanagari code points and the other characters have no case.
ToLowerChar(c) ==
    IF c \in Upper THEN LowerSeq[CHOOSE k \in 1..Len(UpperSeq) : UpperSeq[k] = c] ELSE c

toLowerCase(s) == [k \in 1..Len(s) |-> ToLowerChar(s[k])]

\* String.prototype.includes
includes(s, needle) ==
    \E i \in 1..(Len(s) - Len(needle) + 1) : SubSeq(s, i, i + Len(needle) - 1) = needle

KwPassword == <<"p","a","s","s","w","o","r","d">>
KwPrivacy == <<"p","r","i","v","a","c","y">>
\* U+092A U+093E U+0938 U+0935 U+0930 U+094D U+0921
KwPasswordNative == <<"U092A","U093E","U0938","U0935","U0930","U094D","U0921">>
\* U+0917 U+094B U+092A U+0928 U+0940 U+092F U+0924 U+093E
KwPrivacyNative == <<"U0917","U094B","U092A","U0928","U0940","U092F","U0924","U093E">>

\* The two keyword tests in the other order.
getMockResponsePrivacyFirst(query, lang) ==
    LET lowerQuery == toLowerCase(query)
    IN  IF includes(lowerQuery, KwPrivacy) \/ includes(lowerQuery, KwPrivacyNative)
        THEN langResponses(lang).privacy
        ELSE IF includes(lowerQuery, KwPassword) \/ includes(lowerQuery, KwPasswordNative)
        THEN langResponses(lang).password
        ELSE langResponses(lang).default

getMockResponse(query, lang) ==
    LET lowerQuery == toLowerCase(query)
    IN  IF includes(lowerQuery, KwPassword) \/ includes(lowerQuery, KwPasswordNative)
        THEN langResponses(lang).password
        ELSE IF includes(lowerQuery, KwPrivacy) \/ includes(lowerQuery, KwPrivacyNative)
        THEN langResponses(lang).privacy
        ELSE langResponses(lang).default

QueryChunks ==
    {KwPassword, <<"P","A","S","S","W","O","R","D">>, <<"P","a","S","s","W","o","R","d">>,
     KwPasswordNative, KwPrivacy, <<"P","R","I","V","A","C","Y">>, KwPrivacyNative,
     <<"x">>, <<" ">>}

Queries == {Flatten(cs) : cs \in ChunkSeqs(QueryChunks, MaxQueryChunks)}

\* Language arguments: the supported codes, unknown codes, and names inherited
\* from Object.prototype.
LangArgs == LanguageCodes \cup {"fr-FR", "", "constructor", "__proto__"}

-----------------------------------------------------------------------------
(* The component. *)

\* Values typed into the input box, and transcripts speech recognition delivers.
TypedInputs == {<<" ">>, AnEmail}
Transcripts == {Digits10}

\* String.prototype.trim (the inputs hold no other white space than " ").
RECURSIVE TrimStart(_)
TrimStart(s) == IF s # <<>> /\ Head(s) = " " THEN TrimStart(Tail(s)) ELSE s
RECURSIVE TrimEnd(_)
TrimEnd(s) == IF s # <<>> /\ s[Len(s)] = " " THEN TrimEnd(SubSeq(s, 1, Len(s) - 1)) ELSE s
trim(s) == TrimEnd(TrimStart(s))

\* History of the last handler or callback: its name ("other" for the ones no
\* property reads); for a recognition callback
\* the session it belongs to and whether it changed isRecording or input; for a
\* speak call whether an utterance was pending and was cancelled.
Op(name, sid, changed) == [op |-> name, sid |-> sid, changed |-> changed, cancelled |-> FALSE]
SpeakOp(name) ==
    [op |-> name, sid |-> 0, changed |-> FALSE, cancelled |-> hasSynthesis /\ synthQueue # <<>>]

UIInit(synth, recog) ==
    /\ messages = <<>>
    /\ input = <<>>
    /\ isRecording = FALSE
    /\ selectedLang = "en-US"
    /\ timers = <<>>
    /\ synthQueue = <<>>
    /\ sessions = <<>>
    /\ hasSynthesis = synth
    /\ hasRecognition = recog
    /\ alerted = FALSE
    /\ lastError = "none"
    /\ lastOp = Op("other", 0, FALSE)

FnIdle ==
    /\ fnPc = "idle"
    /\ fnText = <<>>
    /\ fnLang = "en-US"
    /\ fnOut = <<>>
    /\ fnOut2 = <<>>

Init == (\E synth \in BOOLEAN, recog \in BOOLEAN : UIInit(synth, recog)) /\ FnIdle

\* onChange={(e) => setInput(e.target.value)}
onChange(v) ==
    /\ input' = v
    /\ lastOp' = Op("other", 0, FALSE)
    /\ lastError' = "none"
    /\ UNCHANGED <<messages, isRecording, selectedLang, timers, synthQueue, sessions,
                   hasSynthesis, hasRecognition, alerted>>
    /\ UNCHANGED fnVars

\* onClick={() => setSelectedLang(lang)}
setSelectedLang(l) ==
    /\ selectedLang' = l
    /\ lastOp' = Op("other", 0, FALSE)
    /\ lastError' = "none"
    /\ UNCHANGED <<messages, input, isRecording, timers, synthQueue, sessions,
                   hasSynthesis, hasRecognition, alerted>>
    /\ UNCHANGED fnVars

\* Storing the input as typed.
rawText(text) == text

\* const cleanText = sanitizeInput(input)
cleanText(text) == sanitizeInput(text)

\* handleSend.  A message carries two history fields: raw, the input that was
\* submitted, and preClear, whether clearHistory has run since its submit.
handleSend ==
    /\ lastOp' = Op("other", 0, FALSE)
    /\ lastError' = "none"
    /\ IF trim(input) = <<>>
       THEN UNCHANGED <<messages, input, timers>>
       ELSE /\ Len(messages) + 2 * Len(timers) + 2 <= MaxMessages
            /\ messages' = Append(messages,
                   [role |-> "user", text |-> cleanText(input), lang |-> Undefined,
                    raw |-> input, preClear |-> FALSE])
            /\ input' = <<>>
            /\ timers' = Append(timers,
                   [cleanText |-> cleanText(input), lang |-> selectedLang, preClear |-> FALSE])
    /\ UNCHANGED <<isRecording, selectedLang, synthQueue, sessions,
                   hasSynthesis, hasRecognition, alerted>>
    /\ UNCHANGED fnVars

\* A speak that does not cancel what is pending.
speakNoCancel(queue, text, lang) ==
    IF hasSynthesis THEN Append(queue, [text |-> text, lang |-> lang]) ELSE queue

\* speak: the synthesis queue after speak(text, lang).  cancel() removes every
\* utterance from the queue, speak(utterance) appends one.
speak(queue, text, lang) ==
    IF hasSynthesis THEN Append(<<>>, [text |-> text, lang |-> lang]) ELSE queue

\* The setTimeout callback of handleSend, one second after its submit.
timerFire ==
    /\ timers # <<>>
    /\ LET t == Head(timers)
           botResponse == [role |-> "bot", text |-> getMockResponse(t.cleanText, t.lang),
                           lang |-> t.lang, raw |-> <<>>, preClear |-> t.preClear]
       IN  /\ messages' = Append(messages, botResponse)
           /\ synthQueue' = speak(synthQueue, botResponse.text, t.lang)
    /\ timers' = Tail(timers)
    /\ lastOp' = SpeakOp("timer")
    /\ lastError' = "none"
    /\ UNCHANGED <<input, isRecording, selectedLang, sessions,
                   hasSynthesis, hasRecognition, alerted>>
    /\ UNCHANGED fnVars

\* onClick={() => speak(msg.text, msg.lang || 'en-US')} of bot message k
speakerButton(k) ==
    /\ messages[k].role = "bot"
    /\ synthQueue' = speak(synthQueue, messages[k].text,
                           IF messages[k].lang = Undefined THEN "en-US" ELSE messages[k].lang)
    /\ lastOp' = SpeakOp("speakerButton")
    /\ lastError' = "none"
    /\ UNCHANGED <<messages, input, isRecording, selectedLang, timers, sessions,
                   hasSynthesis, hasRecognition, alerted>>
    /\ UNCHANGED fnVars

\* The browser finishes speaking the utterance at the head of the queue.
utteranceEnd ==
    /\ synthQueue # <<>>
    /\ synthQueue' = Tail(synthQueue)
    /\ lastOp' = Op("other", 0, FALSE)
    /\ lastError' = "none"
    /\ UNCHANGED <<messages, input, isRecording, selectedLang, timers, sessions,
                   hasSynthesis, hasRecognition, alerted>>
    /\ UNCHANGED fnVars

\* What recognition.start() of a new instance does to the instances that are
\* still listening is the browser's choice: they keep listening, or the browser
\* aborts them (each then delivers onerror and onend).
StartSession(abortOthers) ==
    Append([k \in 1..Len(sessions) |->
               IF abortOthers /\ sessions[k] = "listening" THEN "aborted" ELSE sessions[k]],
           "listening")

\* toggleRecording
toggleRecording ==
    /\ lastOp' = Op("other", 0, FALSE)
    /\ lastError' = "none"
    /\ IF ~hasRecognition
       THEN /\ alerted' = TRUE
            /\ UNCHANGED <<isRecording, sessions>>
       ELSE IF isRecording
       THEN /\ isRecording' = FALSE
            /\ UNCHANGED <<alerted, sessions>>
       ELSE /\ Len(sessions) < MaxSessions
            /\ isRecording' = TRUE
            /\ \E abortOthers \in BOOLEAN : sessions' = StartSession(abortOthers)
            /\ UNCHANGED alerted
    /\ UNCHANGED <<messages, input, selectedLang, timers, synthQueue,
                   hasSynthesis, hasRecognition>>
    /\ UNCHANGED fnVars

\* The state of session k becomes st, the others keep theirs.
SetSession(k, st) == [sessions EXCEPT ![k] = st]

\* recognition.onresult of session k
onresult(k, transcript) ==
    /\ sessions[k] = "listening"
    /\ sessions' = SetSession(k, "stopped")
    /\ input' = transcript
    /\ isRecording' = FALSE
    /\ lastOp' = Op("onresult", k, isRecording \/ input # transcript)
    /\ lastError' = "none"
    /\ UNCHANGED <<messages, selectedLang, timers, synthQueue,
                   hasSynthesis, hasRecognition, alerted>>
    /\ UNCHANGED fnVars

\* recognition.onerror of session k
onerror(k) ==
    /\ sessions[k] \in {"listening", "aborted"}
    /\ sessions' = SetSession(k, "stopped")
    /\ isRecording' = FALSE
    /\ lastOp' = Op("onerror", k, isRecording)
    /\ lastError' = "none"
    /\ UNCHANGED <<messages, input, selectedLang, timers, synthQueue,
                   hasSynthesis, hasRecognition, alerted>>
    /\ UNCHANGED fnVars

\* recognition.onend of session k
onend(k) ==
    /\ sessions[k] \in {"listening", "stopped"}
    /\ sessions' = SetSession(k, "ended")
    /\ isRecording' = FALSE
    /\ lastOp' = Op("onend", k, isRecording)
    /\ lastError' = "none"
    /\ UNCHANGED <<messages, input, selectedLang, timers, synthQueue,
                   hasSynthesis, hasRecognition, alerted>>
    /\ UNCHANGED fnVars

\* clearHistory.  Without window.speechSynthesis the call of cancel on
\* undefined throws a TypeError, after setMessages([]) was queued.  The timers
\* of earlier submits stay pending (history: they are now from before a clear).
clearHistory ==
    /\ messages' = <<>>
    /\ timers' = [k \in 1..Len(timers) |-> [timers[k] EXCEPT !.preClear = TRUE]]
    /\ IF hasSynthesis
       THEN /\ synthQueue' = <<>>
            /\ lastError' = "none"
       ELSE /\ lastError' = "TypeError"
            /\ UNCHANGED synthQueue
    /\ lastOp' = Op("clearHistory", 0, FALSE)
    /\ UNCHANGED <<input, isRecording, selectedLang, sessions,
                   hasSynthesis, hasRecognition, alerted>>
    /\ UNCHANGED fnVars

Next ==
    \/ \E v \in TypedInputs : onChange(v)
    \/ \E l \in LanguageCodes : setSelectedLang(l)
    \/ handleSend
    \/ timerFire
    \/ \E k \in 1..Len(messages) : speakerButton(k)
    \/ utteranceEnd
    \/ toggleRecording
    \/ \E k \in 1..Len(sessions), t \in Transcripts : onresult(k, t)
    \/ \E k \in 1..Len(sessions) : onerror(k)
    \/ \E k \in 1..Len(sessions) : onend(k)
    \/ clearHistory

Spec == Init /\ [][Next]_vars

-----------------------------------------------------------------------------
(* sanitizeInput applied to an input, then to its own output. *)

SanInit ==
    /\ UIInit(TRUE, TRUE)
    /\ fnPc = "start"
    /\ fnText \in SanInputs
    /\ fnLang = "en-US"
    /\ fnOut = <<>>
    /\ fnOut2 = <<>>

SanitizeOnce ==
    /\ fnPc = "start"
    /\ fnOut' = sanitizeInput(fnText)
    /\ fnPc' = "once"
    /\ UNCHANGED <<fnText, fnLang, fnOut2>>
    /\ UNCHANGED uiVars

SanitizeTwice ==
    /\ fnPc = "once"
    /\ fnOut2' = sanitizeInput(fnOut)
    /\ fnPc' = "twice"
    /\ UNCHANGED <<fnText, fnLang, fnOut>>
    /\ UNCHANGED uiVars

SanNext == SanitizeOnce \/ SanitizeTwice

SpecSanitize == SanInit /\ [][SanNext]_vars

-----------------------------------------------------------------------------
(* getMockResponse applied to a query and a language argument. *)

ResInit ==
    /\ UIInit(TRUE, TRUE)
    /\ fnPc = "start"
    /\ fnText \in Queries
    /\ fnLang \in LangArgs
    /\ fnOut = <<>>
    /\ fnOut2 = <<>>

Resolve ==
    /\ fnPc = "start"
    /\ fnOut' = getMockResponse(fnText, fnLang)
    /\ fnPc' = "done"
    /\ UNCHANGED <<fnText, fnLang, fnOut2>>
    /\ UNCHANGED uiVars

ResNext == Resolve

SpecResolve == ResInit /\ [][ResNext]_vars

-----------------------------------------------------------------------------
(* Claims about sanitizeInput, under SpecSanitize. *)

\* An email address in the dot-atom form of RFC 5322, over the characters of
\* the model: atoms of atext separated by single dots, "@", and a domain of at
\* least two dot-separated labels of letters, digits and inner hyphens whose
\* last label is two or more letters.
AText == Alpha \cup Digit \cup {"'", "_", "%", "+", "-"}
IsDotAtom(a, C) ==
    /\ a # <<>>
    /\ \A k \in 1..Len(a) : a[k] \in C \cup {"."}
    /\ a[1] # "." /\ a[Len(a)] # "."
    /\ \A k \in 1..(Len(a) - 1) : ~(a[k] = "." /\ a[k + 1] = ".")
IsDomain(d) ==
    /\ IsDotAtom(d, Alpha \cup Digit \cup {"-"})
    /\ \E k \in 1..Len(d) : d[k] = "."
    /\ d[1] # "-" /\ d[Len(d)] # "-"
    /\ \A k \in 1..(Len(d) - 1) :
           ~(d[k] = "-" /\ d[k + 1] = ".") /\ ~(d[k] = "." /\ d[k + 1] = "-")
    /\ LET dot == Max({k \in 1..Len(d) : d[k] = "."})
       IN  Len(d) - dot >= 2 /\ \A k \in (dot + 1)..Len(d) : d[k] \in Alpha
IsAddress(a) ==
    \E p \in 2..(Len(a) - 1) :
        /\ a[p] = "@"
        /\ IsDotAtom(SubSeq(a, 1, p - 1), AText)
        /\ IsDomain(SubSeq(a, p + 1, Len(a)))

\* Position p of s lies in a span the email replace replaces.
EmailCovered(s, p) == \E sp \in EmailSpans(s) : sp[1] <= p /\ p <= sp[2]

IsPhoneRun(s, i, j) ==
    /\ 1 <= i /\ j <= Len(s) /\ j - i + 1 = PhoneDigits
    /\ \A k \in i..j : s[k] \in Digit
    /\ (i = 1 \/ s[i - 1] \notin WordClass)
    /\ (j = Len(s) \/ s[j + 1] \notin WordClass)

\* What position p of s contributes when exactly the phone runs are replaced.
PhonePiece(s, p) ==
    IF IsPhoneRun(s, p, p + PhoneDigits - 1) THEN PHONE_REDACTED
    ELSE IF \E i \in (p - PhoneDigits + 1)..(p - 1) : IsPhoneRun(s, i, i + PhoneDigits - 1)
         THEN <<>>
         ELSE <<s[p]>>

PhoneRunsReplaced(s) == Flatten([p \in 1..Len(s) |-> PhonePiece(s, p)])

\* C3: the output is the email-substituted text in which exactly the word-bounded
\* runs of 10 digits are replaced by [PHONE REDACTED]; every other character,
\* so every run of 9 and of 11 digits, is left as it is.
C3_PhoneRunsReplaced ==
    fnPc = "once" => fnOut = PhoneRunsReplaced(ReplaceEmail(fnText))

\* A run of 10 digits is replaced, the run of 9 after it stays.
C3_Witness ==
    /\ fnPc = "once"
    /\ fnText = Digits10 \o <<" ">> \o Digits9
    /\ fnOut = PHONE_REDACTED \o <<" ">> \o Digits9

\* C4: sanitizeInput applied to its own output returns that output.
C4_Idempotent == fnPc = "twice" => fnOut2 = fnOut

\* Both substitutions acted on the first pass, the second pass changed nothing.
C4_Witness ==
    /\ fnPc = "twice"
    /\ fnText = AnEmail \o Digits10
    /\ fnOut2 = EMAIL_REDACTED \o PHONE_REDACTED

-----------------------------------------------------------------------------
(* Claims about getMockResponse, under SpecResolve. *)

\* c and d are the same letter in either case.
SameLetter(c, d) ==
    c = d \/ \E k \in 1..Len(LowerSeq) : {c, d} = {LowerSeq[k], UpperSeq[k]}

\* q contains kw in any letter case.
ContainsAnyCase(q, kw) ==
    \E i \in 1..(Len(q) - Len(kw) + 1) :
        \A k \in 1..Len(kw) : SameLetter(q[i + k - 1], kw[k])

HasPasswordKeyword(q) == ContainsAnyCase(q, KwPassword) \/ includes(q, KwPasswordNative)

\* C5: for a supported language code and a query that contains a password
\* keyword, in English in any letter case or in native script, the result is
\* that language's password response, also when the query contains a privacy
\* keyword.
C5_PasswordFirst ==
    (fnPc = "done" /\ fnLang \in LanguageCodes /\ HasPasswordKeyword(fnText)) =>
        fnOut = responses[fnLang].password

\* A Hindi query with a privacy keyword before an upper-case PASSWORD.
C5_Witness ==
    /\ fnPc = "done"
    /\ fnLang = "hi-IN"
    /\ fnText = KwPrivacyNative \o <<" ">> \o <<"P","A","S","S","W","O","R","D">>
    /\ fnOut = responses["hi-IN"].password

\* C6 as stated: for a language code that is not supported the result is the
\* result for 'en-US', and it is a response string.
C6_UnknownLangIsEnglish ==
    (fnPc = "done" /\ fnLang \notin LanguageCodes) =>
        /\ fnOut = getMockResponse(fnText, "en-US")
        /\ fnOut # Undefined

-----------------------------------------------------------------------------
(* Claims about the component, under Spec. *)

\* C1: the text of every user message is sanitizeInput of the input that was
\* submitted.
C1_UserTextSanitized ==
    \A k \in 1..Len(messages) :
        messages[k].role = "user" => messages[k].text = sanitizeInput(messages[k].raw)

\* A transcript that is a phone number was submitted and is stored redacted.
C1_Witness ==
    \E k \in 1..Len(messages) :
        /\ messages[k].role = "user"
        /\ messages[k].raw = Digits10
        /\ messages[k].text = PHONE_REDACTED

\* C7 as stated: after clearHistory the list is empty, and no message of a
\* submit made before the last clear is in the list.
C7_NoMessageOutlivesClear ==
    /\ lastOp.op = "clearHistory" => messages = <<>>
    /\ \A k \in 1..Len(messages) : ~messages[k].preClear

\* C8: at most one utterance is pending or spoken; after clearHistory none is;
\* after a speak call with speech synthesis present exactly the new one is.
C8_OneUtterance ==
    /\ Len(synthQueue) <= 1
    /\ lastOp.op = "clearHistory" => synthQueue = <<>>
    /\ (lastOp.op \in {"timer", "speakerButton"} /\ hasSynthesis) =>
           /\ Len(synthQueue) = 1
           /\ \E k \in 1..Len(messages) :
                  /\ messages[k].role = "bot"
                  /\ synthQueue[1] = [text |-> messages[k].text, lang |-> messages[k].lang]

\* After a clear, a speak call cancelled a pending utterance and started its own.
C8_Witness ==
    /\ \E k \in 1..Len(messages) : messages[k].preClear
    /\ lastOp.op = "speakerButton"
    /\ lastOp.cancelled
    /\ Len(synthQueue) = 1

Listening == {k \in 1..Len(sessions) : sessions[k] = "listening"}

\* C9 as stated: at most one recognition session is listening, and a callback
\* of an earlier session does not change isRecording or input while a later
\* session is listening.
C9_OneSession ==
    /\ Cardinality(Listening) <= 1
    /\ (lastOp.op \in {"onresult", "onerror", "onend"} /\ lastOp.changed) =>
           \A k \in Listening : k < lastOp.sid

\* C10 as stated: with a speech capability absent no handler lets an exception
\* escape.
C10_NoException ==
    (~hasSynthesis \/ ~hasRecognition) => lastError = "none"

=============================================================================
